---- MODULE Spec2Model ----
(***************************************************************************)
(* Model of kraken/lib/train.py: the construction and setup of a           *)
(* RecognitionModel, i.e. the binding of a training corpus to a new or a   *)
(* pretrained network and the reconciliation of the corpus alphabet with   *)
(* the network's codec under the resize policies fail / add / both.        *)
(*                                                                         *)
(* The codec (kraken.lib.codec.PytorchCodec), the datasets                 *)
(* (kraken.lib.dataset) and the network (kraken.lib.vgsl.TorchVGSLModel)   *)
(* are collaborators whose code is not part of train.py; they are modelled *)
(* from their documented contract.                                         *)
(***************************************************************************)
EXTENDS Integers, Sequences, FiniteSets, TLC

(***************************************************************************)
(* Bounds of the model.                                                    *)
(***************************************************************************)
\* largest number of entries of the codec of a pretrained model
MaxCodecSize == 3
\* largest number of distinct clusters in an explicit validation set
MaxValAlphabet == 1
\* largest append index tried
MaxAppend == 1
\* number of times the trainer calls setup on one model
MaxSetupCalls == 2

(***************************************************************************)
(* Grapheme clusters.  ClusterNames lists them in lexicographic order;     *)
(* Rank is the position in that order.                                     *)
(***************************************************************************)
ClusterNames == <<"a", "b", "c", "x">>

Clusters == {ClusterNames[i] : i \in 1..Len(ClusterNames)}

Rank(c) == CHOOSE i \in 1..Len(ClusterNames) : ClusterNames[i] = c

Range(s) == {s[i] : i \in 1..Len(s)}

RECURSIVE SortedSeq(_)
\* the elements of a set of integers as an increasing sequence
SortedSeq(S) ==
    IF S = {} THEN << >>
    ELSE LET m == CHOOSE x \in S : \A y \in S : x <= y
         IN  <<m>> \o SortedSeq(S \ {m})

(***************************************************************************)
(* Codec: c2l maps a cluster to its label sequence, strict is the flag     *)
(* that makes encoding an unknown cluster fail.                            *)
(***************************************************************************)
EmptyC2l == [c \in {} |-> << >>]

\* Python's None where a codec is expected; a codec of length 0 is falsy too
NoCodec == [c2l |-> EmptyC2l, strict |-> FALSE]

Keys(codec) == DOMAIN codec.c2l

Truthy(codec) == Keys(codec) # {}

Labels(codec) == UNION {Range(codec.c2l[k]) : k \in Keys(codec)}

max_label(codec) ==
    IF Labels(codec) = {} THEN -1
    ELSE CHOOSE m \in Labels(codec) : \A l \in Labels(codec) : l <= m

\* the codec a dataset builds from its own alphabet: labels in sorted order
CodecFromAlphabet(alphabet) ==
    [c2l |-> [c \in alphabet |->
                  << Cardinality({d \in alphabet : Rank(d) < Rank(c)}) >>],
     strict |-> FALSE]

\* the new labels started at max_label itself
add_labels_from_max(codec, S) ==
    LET new == S \ Keys(codec)
        base == max_label(codec)
    IN  [c2l |-> [c \in Keys(codec) \cup new |->
                    IF c \in Keys(codec) THEN codec.c2l[c]
                    ELSE << base + Cardinality({d \in new : Rank(d) < Rank(c)}) >>],
         strict |-> codec.strict]

add_labels(codec, S) ==
    LET new == S \ Keys(codec)
        base == max_label(codec) + 1
    IN  [c2l |-> [c \in Keys(codec) \cup new |->
                    IF c \in Keys(codec) THEN codec.c2l[c]
                    ELSE << base + Cardinality({d \in new : Rank(d) < Rank(c)}) >>],
         strict |-> codec.strict]

\* labels of self that belong to clusters the other codec does not have
DeletedLabels(self, other) ==
    UNION {Range(self.c2l[k]) : k \in Keys(self) \ Keys(other)}

\* the surviving clusters keep their labels, holes included
merge_keeps_gaps(self, other) ==
    LET del == DeletedLabels(self, other)
        kept == Keys(self) \cap Keys(other)
        new == Keys(other) \ Keys(self)
        keptC2l == [c \in kept |-> self.c2l[c]]
        base == max_label([c2l |-> keptC2l, strict |-> FALSE]) + 1
    IN  [codec |-> [c2l |-> [c \in kept \cup new |->
                               IF c \in kept THEN keptC2l[c]
                               ELSE << base + Cardinality({d \in new : Rank(d) < Rank(c)}) >>],
                    strict |-> self.strict],
         deleted |-> SortedSeq(del)]

merge(self, other) ==
    LET del == DeletedLabels(self, other)
        kept == Keys(self) \cap Keys(other)
        new == Keys(other) \ Keys(self)
        shift(l) == l - Cardinality({d \in del : d < l})
        keptC2l == [c \in kept |->
                      [i \in 1..Len(self.c2l[c]) |-> shift(self.c2l[c][i])]]
        base == max_label([c2l |-> keptC2l, strict |-> FALSE]) + 1
    IN  [codec |-> [c2l |-> [c \in kept \cup new |->
                               IF c \in kept THEN keptC2l[c]
                               ELSE << base + Cardinality({d \in new : Rank(d) < Rank(c)}) >>],
                    strict |-> self.strict],
         deleted |-> SortedSeq(del)]

\* encoding a corpus with this alphabet raises KrakenEncodeException
EncodeRaises(codec, alphabet) ==
    codec.strict /\ ~(alphabet \subseteq Keys(codec))

\* the codecs a pretrained model can carry: one label per cluster, the labels
\* a permutation of 0..n-1
LoadedCodecs ==
    UNION {
      { [c2l |-> [c \in K |-> << f[c] >>], strict |-> FALSE] :
          f \in { g \in [K -> 0..(Cardinality(K) - 1)] :
                    \A c, d \in K : c # d => g[c] # g[d] } } :
      K \in { J \in SUBSET Clusters : J # {} /\ Cardinality(J) <= MaxCodecSize } }

(***************************************************************************)
(* The network.  rows is the output projection layer: rows[i + 1] is the   *)
(* row of label i and holds the index the row had in the pretrained        *)
(* network, or FreshRow for a newly initialised row.  spec lists the       *)
(* widths of the output layers named by the network's VGSL specification.  *)
(***************************************************************************)
FreshRow == -1

NoNN == [present |-> FALSE, codec |-> NoCodec, rows |-> << >>, spec |-> << >>,
         one_channel_mode |-> "None", hyper_params |-> "None",
         model_type |-> "None"]

\* vgsl.TorchVGSLModel(spec) followed by init_weights()
NewNN(spec) ==
    [present |-> TRUE, codec |-> NoCodec,
     rows |-> [i \in 1..spec[Len(spec)] |-> FreshRow], spec |-> spec,
     one_channel_mode |-> "None", hyper_params |-> "None",
     model_type |-> "None"]

\* the models TorchVGSLModel.load_model can return
PretrainedModels ==
    { [present |-> TRUE, codec |-> c,
       rows |-> [i \in 1..(max_label(c) + 1) |-> i - 1],
       spec |-> << max_label(c) + 1 >>,
       one_channel_mode |-> m, hyper_params |-> "pretrained",
       model_type |-> "recognition"] :
        c \in LoadedCodecs, m \in {"None", "1"} }

RECURSIVE KeepRows(_, _, _)
\* the rows of a layer whose (0-based) index is not in del, in their order;
\* i is the 1-based position the scan starts at
KeepRows(rows, del, i) ==
    IF i > Len(rows) THEN << >>
    ELSE (IF (i - 1) \in del THEN << >> ELSE << rows[i] >>)
         \o KeepRows(rows, del, i + 1)

\* resize_output(new_width, del_indices) of the output projection layer
resize_output(rows, new_width, del) ==
    LET kept == KeepRows(rows, Range(del), 1)
    IN  [i \in 1..new_width |-> IF i <= Len(kept) THEN kept[i] ELSE FreshRow]

(***************************************************************************)
(* Datasets.  encode(codec) binds a codec to the dataset (a fresh one      *)
(* built from the dataset's alphabet when none is given) and encodes every *)
(* line with it.                                                           *)
(***************************************************************************)
NoDataset == [built |-> FALSE, alphabet |-> {}, codec |-> NoCodec,
              encoded |-> FALSE, im_mode |-> "None"]

NewDataset(alphabet, im_mode) ==
    [built |-> TRUE, alphabet |-> alphabet, codec |-> NoCodec,
     encoded |-> FALSE, im_mode |-> im_mode]

DatasetCodec(ds, codec) ==
    IF Truthy(codec) THEN codec ELSE CodecFromAlphabet(ds.alphabet)

encode(ds, codec) ==
    [ds EXCEPT !.codec = DatasetCodec(ds, codec), !.encoded = TRUE]

(***************************************************************************)
(* Arguments of RecognitionModel.__init__.                                 *)
(***************************************************************************)
NoAppend == -1

Policies == {"fail", "add", "both", "bogus"}

Stages == {"None", "fit", "test"}

ImModes == {"1", "L"}

OverrideCodecs == { CodecFromAlphabet({"a", "b"}) }

Configs ==
    { [model |-> m, pretrained |-> p, append |-> a, resize |-> r, codec |-> c] :
        m \in {TRUE}, p \in PretrainedModels,
        a \in {NoAppend} \cup 0..MaxAppend, r \in Policies,
        c \in {NoCodec} \cup OverrideCodecs }
    \cup
    { [model |-> m, pretrained |-> p, append |-> a, resize |-> r, codec |-> c] :
        m \in {FALSE}, p \in {NoNN},
        a \in {NoAppend} \cup 0..MaxAppend, r \in Policies,
        c \in {NoCodec} \cup OverrideCodecs }

VARIABLES
    cfg,         \* the arguments of the constructor
    nn,          \* self.nn
    selfCodec,   \* self.codec
    selfSpec,    \* self.spec: the output layers of the specification
    datasets,    \* the dataset objects: 1 is train_set.dataset
    valRef,      \* the dataset object val_set.dataset refers to
    pc,          \* position of the run
    err,         \* the exception that ended the run: [type, line, info]
    resizeLog,   \* the calls of nn.resize_output made so far
    pre,         \* the state in which the running call of setup was entered
    setupCalls,  \* number of calls of setup so far
    choice,      \* an evaluation of the codec choice of setup on its own
    build,       \* the run of _build_dataset and of the split that follows
    seg,         \* the class mapping reconciliation of segmentation training
    cod,         \* a codec and the operation last applied to it
    hyp,         \* the default hyper-parameters and the constructions using them
    fit          \* the validation epochs of a training run

\* the state of the studies that run apart from construction and setup
aside == <<choice, build, seg, cod, hyp, fit>>

vars == <<cfg, nn, selfCodec, selfSpec, datasets, valRef, pc, err, resizeLog,
          pre, setupCalls, choice, build, seg, cod, hyp, fit>>

\* nn: self.nn at entry, resizes: number of resize_output calls made before,
\* again: an earlier call of setup on this model has completed
NoPre == [nn |-> NoNN, resizes |-> 0, again |-> FALSE]

NoErr == [type |-> "None", line |-> 0, info |-> {}]

Raise(type, line, info) == [type |-> type, line |-> line, info |-> info]

train == datasets[1]

val == datasets[valRef]

\* nothing evaluated, built or reconciled apart from the run
NoChoice == [applied |-> FALSE, given |-> NoCodec, resize |-> "fail",
             net |-> NoCodec, result |-> NoCodec]

NoSet == [samples |-> << >>, alphabet |-> [c \in Clusters |-> 0]]

NoBuild == [phase |-> "idle", num_workers |-> 1, format_type |-> "path",
            partition |-> 9, training_data |-> << >>, evaluation_data |-> << >>,
            cur |-> 1, pending |-> {}, results |-> << >>, next |-> 1,
            sets |-> <<NoSet, NoSet>>, train_len |-> 0, val_len |-> 0,
            train_idx |-> {}, val_idx |-> {}]

NoMapping == [baselines |-> << >>, regions |-> << >>]

NoSeg == [phase |-> "idle", resize |-> "fail", class_mapping |-> NoMapping,
          entry |-> NoMapping, gt |-> NoMapping, val |-> NoMapping,
          rows |-> << >>,
          calls |-> << >>, cls_idx |-> -1, err |-> NoErr]

NoCod == [op |-> "None", ops |-> 0, codec |-> NoCodec, before |-> NoCodec,
          receiver |-> NoCodec, arg |-> NoCodec, added |-> {}, deleted |-> << >>,
          rows |-> << >>, text |-> << >>, labels |-> << >>, decoded |-> << >>]

NoHyp == [phase |-> "idle", defaults |-> << >>, constructions |-> 0,
          seen |-> << >>, model |-> FALSE, load_hyper_parameters |-> FALSE,
          loaded |-> << >>, hyper_params |-> << >>, hparams |-> << >>]

NoFit == [phase |-> "idle", sanity_checking |-> FALSE, current_epoch |-> 0,
          best_epoch |-> 0, best_metric |-> 0, completed_epochs |-> 0,
          entry |-> 0, im_mode |-> "None", one_channel_mode |-> "None",
          logged |-> 0, saved |-> {}, history |-> << >>]

\* no codec operation, hyper-parameter or epoch is being looked at
AsideIdle == cod = NoCod /\ hyp = NoHyp /\ fit = NoFit

Init ==
    /\ cfg \in Configs
    /\ nn = NoNN
    /\ selfCodec = NoCodec
    /\ selfSpec = << >>
    /\ datasets = [i \in 1..2 |-> NoDataset]
    /\ valRef = 1
    /\ pc = "new"
    /\ err = NoErr
    /\ resizeLog = << >>
    /\ pre = NoPre
    /\ setupCalls = 0
    /\ choice = NoChoice
    /\ build = NoBuild
    /\ seg = NoSeg
    /\ AsideIdle

(***************************************************************************)
(* RecognitionModel.__init__                                               *)
(***************************************************************************)
\* the alphabets a corpus can have; the empty one is a corpus none of whose
\* items could be added
TrainAlphabets == SUBSET Clusters

ValAlphabets == {A \in SUBSET Clusters : Cardinality(A) <= MaxValAlphabet}

\* loads the pretrained model, builds the datasets, checks that neither is
\* empty and instantiates the codec given by the caller
Construct ==
    /\ pc = "new"
    /\ nn' = IF cfg.model THEN cfg.pretrained ELSE NoNN
    /\ \E alphabet \in TrainAlphabets, im_mode \in ImModes, explicit \in BOOLEAN :
         \E valAlphabet \in (IF explicit THEN ValAlphabets ELSE {alphabet}) :
           /\ datasets' = [i \in 1..2 |->
                             IF i = 1 THEN NewDataset(alphabet, im_mode)
                             ELSE IF explicit THEN NewDataset(valAlphabet, im_mode)
                             ELSE NoDataset]
           /\ valRef' = IF explicit THEN 2 ELSE 1
           /\ IF alphabet = {} \/ valAlphabet = {}
              THEN /\ err' = Raise("ValueError", 316, {})
                   /\ pc' = "failed"
                   /\ selfCodec' = selfCodec
              ELSE IF Truthy(cfg.codec)
              THEN \* line 340 reads codec.c2l of the dict given by the caller
                   /\ err' = Raise("AttributeError", 340, {})
                   /\ pc' = "failed"
                   /\ selfCodec' = cfg.codec
              ELSE /\ err' = err
                   /\ pc' = "constructed"
                   /\ selfCodec' = NoCodec
    /\ selfSpec' = IF cfg.model THEN selfSpec ELSE << >>
    /\ UNCHANGED <<cfg, resizeLog, pre, setupCalls, aside>>

(***************************************************************************)
(* RecognitionModel.setup                                                  *)
(***************************************************************************)
\* Python truth value of self.append
AppendTruthy(append) == append # NoAppend /\ append # 0

\* the branch setup takes
Branch(append, model) ==
    IF AppendTruthy(append) THEN "append"
    ELSE IF model THEN "load"
    ELSE "fresh"

\* entry of setup: a stage other than None and 'fit' does nothing
SetupEnter ==
    /\ pc \in {"constructed", "done"}
    /\ setupCalls < MaxSetupCalls
    /\ setupCalls' = setupCalls + 1
    /\ \E stage \in Stages :
         IF stage \in {"None", "fit"}
         THEN /\ pc' = Branch(cfg.append, cfg.model)
              /\ pre' = [nn |-> nn, resizes |-> Len(resizeLog), again |-> pc = "done"]
         ELSE /\ pc' = pc
              /\ pre' = pre
    /\ UNCHANGED <<cfg, nn, selfCodec, selfSpec, datasets, valRef, err, resizeLog, aside>>

\* the append branch: encodes the training set, then reads the local spec
\* before it is assigned
SetupAppend ==
    /\ pc = "append"
    /\ pc' = "failed"
    /\ IF EncodeRaises(selfCodec, train.alphabet)
       THEN /\ err' = Raise("KrakenEncodeException", 431, {})
            /\ datasets' = datasets
       ELSE /\ err' = Raise("UnboundLocalError", 433, {})
            /\ datasets' = [datasets EXCEPT ![1] = encode(train, selfCodec)]
    /\ UNCHANGED <<cfg, nn, selfCodec, selfSpec, valRef, resizeLog, pre, setupCalls, aside>>

\* prefer explicitly given codec over network codec if mode is 'both'
UsesGivenCodec(given, resize) == Truthy(given) /\ resize = "both"

\* a given codec honoured under every policy
EffectiveCodec_ignores_policy(given, resize, netCodec) ==
    IF Truthy(given) THEN given ELSE netCodec

EffectiveCodec(given, resize, netCodec) ==
    IF UsesGivenCodec(given, resize) THEN given ELSE netCodec

\* the codec setup reconciles against, after codec.strict = True
StrictCodec == [EffectiveCodec(selfCodec, cfg.resize, nn.codec) EXCEPT !.strict = TRUE]

\* the difference taken the wrong way round
alpha_diff_reversed(alphabet, codec) == Keys(codec) \ alphabet

alpha_diff(alphabet, codec) == alphabet \ Keys(codec)

\* policy 'both' merging even when the training set could be encoded
LoadNext_always_merge(raises, resize) ==
    IF resize = "both" THEN "both"
    ELSE IF ~raises THEN "validate"
    ELSE IF resize = "add" THEN "add"
    ELSE "failed"

\* where the try/except around the first encoding of the training set leads
LoadNext(raises, resize) ==
    IF ~raises THEN "validate"
    ELSE IF resize = "fail" THEN "failed"
    ELSE IF resize = "add" THEN "add"
    ELSE IF resize = "both" THEN "both"
    ELSE "failed"

\* the load branch up to the dispatch on the resize policy
SetupLoad ==
    /\ pc = "load"
    /\ IF UsesGivenCodec(selfCodec, cfg.resize)
       THEN /\ selfCodec' = StrictCodec
            /\ nn' = nn
       ELSE /\ nn' = [nn EXCEPT !.codec = StrictCodec]
            /\ selfCodec' = selfCodec
    /\ LET raises == EncodeRaises(StrictCodec, train.alphabet)
       IN  /\ pc' = LoadNext(raises, cfg.resize)
           /\ datasets' = IF raises THEN datasets
                          ELSE [datasets EXCEPT ![1] = encode(train, StrictCodec)]
           /\ err' = IF ~raises \/ cfg.resize \in {"add", "both"} THEN err
                     ELSE IF cfg.resize = "fail"
                     THEN Raise("KrakenInputException", 449,
                                alpha_diff(train.alphabet, StrictCodec))
                     ELSE Raise("ValueError", 467, {})
    /\ UNCHANGED <<cfg, selfSpec, valRef, resizeLog, pre, setupCalls, aside>>

ResizeCall(width, hasDel, del) == [width |-> width, hasDel |-> hasDel, del |-> del]

\* policy 'add': extends the codec and the output layer, then reads the
\* undefined name nn
SetupAdd ==
    /\ pc = "add"
    /\ LET codec == add_labels(StrictCodec, alpha_diff(train.alphabet, StrictCodec))
           width == max_label(codec) + 1
       IN  /\ nn' = [nn EXCEPT !.codec = codec,
                               !.rows = resize_output(nn.rows, width, << >>)]
           /\ resizeLog' = Append(resizeLog, ResizeCall(width, FALSE, << >>))
    /\ pc' = "failed"
    /\ err' = Raise("NameError", 456, {})
    /\ UNCHANGED <<cfg, selfCodec, selfSpec, datasets, valRef, pre, setupCalls, aside>>

\* the width short by one row
BothWidth_off_by_one(ncodec) == max_label(ncodec)

\* width of the output layer requested under policy 'both'
BothWidth(ncodec) == max_label(ncodec) + 1

\* policy 'both': merges the codec with the one of the training set
SetupBoth ==
    /\ pc = "both"
    /\ LET own == encode(train, NoCodec)
           m == merge(StrictCodec, own.codec)
           ncodec == m.codec
       IN  /\ nn' = [nn EXCEPT !.codec = ncodec,
                               !.rows = IF EncodeRaises(ncodec, train.alphabet)
                                        THEN nn.rows
                                        ELSE resize_output(nn.rows, BothWidth(ncodec), m.deleted)]
           /\ IF EncodeRaises(ncodec, train.alphabet)
              THEN /\ datasets' = [datasets EXCEPT ![1] = own]
                   /\ resizeLog' = resizeLog
                   /\ pc' = "failed"
                   /\ err' = Raise("KrakenEncodeException", 464, {})
              ELSE /\ datasets' = [datasets EXCEPT ![1] = encode(own, ncodec)]
                   /\ resizeLog' = Append(resizeLog,
                                          ResizeCall(BothWidth(ncodec), TRUE, m.deleted))
                   /\ pc' = "validate"
                   /\ err' = err
    /\ UNCHANGED <<cfg, selfCodec, selfSpec, valRef, pre, setupCalls, aside>>

\* the number of outputs short by one
FreshWidth_off_by_one(codec) == max_label(codec)

\* number of outputs of a newly created model
FreshWidth(codec) == max_label(codec) + 1

\* no pretrained model: a new network sized after the training set's codec
SetupFresh ==
    /\ pc = "fresh"
    /\ IF EncodeRaises(selfCodec, train.alphabet)
       THEN /\ pc' = "failed"
            /\ err' = Raise("KrakenEncodeException", 469, {})
            /\ UNCHANGED <<nn, selfSpec, datasets>>
       ELSE LET ds == encode(train, selfCodec)
                spec == Append(selfSpec, FreshWidth(ds.codec))
            IN  /\ datasets' = [datasets EXCEPT ![1] = ds]
                /\ selfSpec' = spec
                /\ nn' = [NewNN(spec) EXCEPT !.codec = ds.codec]
                /\ pc' = "validate"
                /\ err' = err
    /\ UNCHANGED <<cfg, selfCodec, valRef, resizeLog, pre, setupCalls, aside>>

\* self.val_set.dataset.encode(self.nn.codec)
SetupValidate ==
    /\ pc = "validate"
    /\ IF EncodeRaises(nn.codec, val.alphabet)
       THEN /\ pc' = "failed"
            /\ err' = Raise("KrakenEncodeException", 477, {})
            /\ datasets' = datasets
       ELSE /\ datasets' = [datasets EXCEPT ![valRef] = encode(val, nn.codec)]
            /\ pc' = "finalize"
            /\ err' = err
    /\ UNCHANGED <<cfg, nn, selfCodec, selfSpec, valRef, resizeLog, pre, setupCalls, aside>>

\* the image modes of the network and of the training set differ
ModeMismatch(net, ds) ==
    net.one_channel_mode # "None" /\ ds.im_mode # net.one_channel_mode

\* the tail of setup: warnings and metadata
SetupFinalize ==
    /\ pc = "finalize"
    /\ IF ModeMismatch(nn, train)
       THEN \* the warning's message reads the undefined name nn
            /\ pc' = "failed"
            /\ err' = Raise("NameError", 480, {})
            /\ nn' = nn
       ELSE /\ nn' = [nn EXCEPT !.hyper_params = "hparams",
                                !.model_type = "recognition"]
            /\ pc' = "done"
            /\ err' = err
    /\ UNCHANGED <<cfg, selfCodec, selfSpec, datasets, valRef, resizeLog, pre, setupCalls, aside>>

Next ==
    \/ Construct
    \/ SetupEnter
    \/ SetupAppend
    \/ SetupLoad
    \/ SetupAdd
    \/ SetupBoth
    \/ SetupFresh
    \/ SetupValidate
    \/ SetupFinalize

Spec == Init /\ [][Next]_vars

(***************************************************************************)
(* The codec choice of setup (line 440) evaluated on its own: self.codec,  *)
(* the policy and the codec of the loaded model are drawn freely, among    *)
(* them the given codecs that __init__ never lets through to setup.        *)
(***************************************************************************)
IdleCfg == [model |-> FALSE, pretrained |-> NoNN, append |-> NoAppend,
            resize |-> "fail", codec |-> NoCodec]

\* no RecognitionModel is being constructed or set up
RunIdle ==
    /\ cfg = IdleCfg
    /\ nn = NoNN
    /\ selfCodec = NoCodec
    /\ selfSpec = << >>
    /\ datasets = [i \in 1..2 |-> NoDataset]
    /\ valRef = 1
    /\ pc = "idle"
    /\ err = NoErr
    /\ resizeLog = << >>
    /\ pre = NoPre
    /\ setupCalls = 0

GivenCodecs == {NoCodec} \cup LoadedCodecs

InitChoice ==
    /\ RunIdle
    /\ \E given \in GivenCodecs, resize \in Policies, net \in LoadedCodecs :
          choice = [applied |-> FALSE, given |-> given, resize |-> resize,
                    net |-> net, result |-> NoCodec]
    /\ build = NoBuild
    /\ seg = NoSeg
    /\ AsideIdle

\* codec = self.codec if self.codec and self.resize == 'both' else self.nn.codec
ChooseCodec ==
    /\ ~choice.applied
    /\ choice' = [choice EXCEPT
                    !.applied = TRUE,
                    !.result = EffectiveCodec(choice.given, choice.resize, choice.net)]
    /\ UNCHANGED <<cfg, nn, selfCodec, selfSpec, datasets, valRef, pc, err,
                   resizeLog, pre, setupCalls, build, seg, cod, hyp, fit>>

NextChoice == ChooseCodec

SpecChoice == InitChoice /\ [][NextChoice]_vars

(***************************************************************************)
(* _build_dataset: the items of a corpus are parsed and added to a dataset *)
(* object, by a pool of workers or one after the other.  An item is a      *)
(* line whose text is a sequence of clusters, a reference to a file that   *)
(* does not exist, or malformed input.                                     *)
(***************************************************************************)
MaxItems == 6

MaxBad == 1

MaxEvalItems == 1

\* chunksize of pool.imap_unordered
ChunkSize == 5

ItemTexts == << <<"a", "b">>, <<"b">>, <<"c">>, <<"a">>, <<"b", "a">>, <<"x">> >>

Text(i) == ItemTexts[((i - 1) % Len(ItemTexts)) + 1]

BadKinds == {"missing", "malformed"}

\* a corpus of n items of which those in DOMAIN bad cannot be parsed
Corpus(n, bad) ==
    [i \in 1..n |-> IF i \in DOMAIN bad
                    THEN [kind |-> bad[i], text |-> << >>]
                    ELSE [kind |-> "ok", text |-> Text(i)]]

Corpora(maxLen) ==
    { Corpus(n, bad) :
        n \in 0..maxLen,
        bad \in UNION { [B -> BadKinds] :
                          B \in {X \in SUBSET (1..maxLen) : Cardinality(X) <= MaxBad} } }

\* partition, in tenths
Partitions == {0, 5, 9, 10}

DefaultPartition == 9

\* (self.num_workers and self.num_workers > 1) and self.format_type != 'binary'
UsesPool(num_workers, format_type) == num_workers > 1 /\ format_type # "binary"

\* the chunks pool.imap_unordered cuts n items into, and the items of a chunk
Chunks(n) == 1..((n + ChunkSize - 1) \div ChunkSize)

ChunkItems(c, n) ==
    [k \in 1..(IF c * ChunkSize <= n THEN ChunkSize ELSE n - (c - 1) * ChunkSize)
        |-> (c - 1) * ChunkSize + k]

CountIn(text, c) == Cardinality({i \in 1..Len(text) : text[i] = c})

\* dataset.add of a parsed line: the sample is appended and its clusters are
\* counted in dataset.alphabet
add(set, item) ==
    [samples |-> Append(set.samples, item.text),
     alphabet |-> [c \in Clusters |-> set.alphabet[c] + CountIn(item.text, c)]]

\* the keys of the Counter dataset.alphabet
AlphabetKeys(set) == {c \in Clusters : set.alphabet[c] > 0}

\* the corpus the dataset under construction is built from
CurData == IF build.cur = 1 THEN build.training_data ELSE build.evaluation_data

\* the state of a build of a dataset from data that is about to start
StartBuild(b, cur, data) ==
    [b EXCEPT !.cur = cur,
              !.phase = IF cur = 1 THEN "train" ELSE "val",
              !.pending = IF UsesPool(b.num_workers, b.format_type)
                          THEN Chunks(Len(data)) ELSE {},
              !.results = << >>,
              !.next = 1]

\* the runs whose dataset construction is followed item by item
BuildModels ==
    {m \in PretrainedModels : DOMAIN m.codec.c2l = {"a", "b"} /\ m.codec.c2l["a"] = <<0>>}

BuildConfigs ==
    {c \in Configs :
        /\ c.codec = NoCodec
        /\ c.append \in (IF c.model THEN {NoAppend} ELSE {NoAppend, 1})
        /\ IF c.model THEN c.pretrained \in BuildModels ELSE c.resize = "fail"}

InitBuild ==
    /\ cfg \in BuildConfigs
    /\ nn = NoNN
    /\ selfCodec = NoCodec
    /\ selfSpec = << >>
    /\ datasets = [i \in 1..2 |-> NoDataset]
    /\ valRef = 1
    /\ pc = "new"
    /\ err = NoErr
    /\ resizeLog = << >>
    /\ pre = NoPre
    /\ setupCalls = 0
    /\ choice = NoChoice
    /\ \E w \in {[num_workers |-> 1, format_type |-> "path"],
                  [num_workers |-> 2, format_type |-> "path"],
                  [num_workers |-> 2, format_type |-> "binary"]},
          td \in Corpora(MaxItems), ed \in Corpora(MaxEvalItems) :
          \E p \in (IF ed = << >> THEN Partitions ELSE {DefaultPartition}) :
            build = [NoBuild EXCEPT !.phase = "ready",
                                    !.num_workers = w.num_workers,
                                    !.format_type = w.format_type,
                                    !.partition = p,
                                    !.training_data = td,
                                    !.evaluation_data = ed]
    /\ seg = NoSeg
    /\ AsideIdle

\* __init__ up to the first call of _build_dataset: the pretrained model is
\* loaded and the items of the training data are handed to the pool
BuildStart ==
    /\ pc = "new"
    /\ build.phase = "ready"
    /\ pc' = "build"
    /\ nn' = IF cfg.model THEN cfg.pretrained ELSE NoNN
    /\ build' = StartBuild(build, 1, build.training_data)
    /\ UNCHANGED <<cfg, selfCodec, selfSpec, datasets, valRef, err, resizeLog,
                   pre, setupCalls, choice, seg, cod, hyp, fit>>

\* a worker of the pool finishes a chunk: _star_fun has turned every item of
\* it into a parsed sample or, on FileNotFoundError or KrakenInputException,
\* into None
WorkerParse ==
    /\ build.phase \in {"train", "val"}
    /\ \E c \in build.pending :
          build' = [build EXCEPT
                      !.pending = @ \ {c},
                      !.results = @ \o ChunkItems(c, Len(CurData))]
    /\ UNCHANGED <<cfg, nn, selfCodec, selfSpec, datasets, valRef, pc, err,
                   resizeLog, pre, setupCalls, choice, seg, cod, hyp, fit>>

\* every result starting the dataset afresh, so that the last arrival wins
Collected_last_wins(set, item) ==
    IF item.kind = "ok" THEN add(NoSet, item) ELSE set

\* if im: dataset.add(**im)
Collected(set, item) ==
    IF item.kind = "ok" THEN add(set, item) ELSE set

\* the loop over pool.imap_unordered takes the next result
Collect ==
    /\ build.phase \in {"train", "val"}
    /\ build.results # << >>
    /\ LET item == CurData[Head(build.results)]
       IN  build' = [build EXCEPT
                       !.results = Tail(@),
                       !.sets[build.cur] = Collected(@, item)]
    /\ UNCHANGED <<cfg, nn, selfCodec, selfSpec, datasets, valRef, pc, err,
                   resizeLog, pre, setupCalls, choice, seg, cod, hyp, fit>>

\* one round of the loop without a pool: dataset.add parses the item itself,
\* and only KrakenInputException is caught
SerialAdd ==
    /\ build.phase \in {"train", "val"}
    /\ ~UsesPool(build.num_workers, build.format_type)
    /\ build.next <= Len(CurData)
    /\ LET item == CurData[build.next]
       IN  IF item.kind = "missing"
           THEN /\ build' = [build EXCEPT !.phase = "aborted"]
                /\ pc' = "failed"
                /\ err' = Raise("FileNotFoundError", 368, {})
           ELSE /\ build' = [build EXCEPT
                               !.next = @ + 1,
                               !.sets[build.cur] =
                                   IF item.kind = "ok" THEN add(@, item) ELSE @]
                /\ UNCHANGED <<pc, err>>
    /\ UNCHANGED <<cfg, nn, selfCodec, selfSpec, datasets, valRef, resizeLog,
                   pre, setupCalls, choice, seg, cod, hyp, fit>>

\* a pool that has handed out every result although workers still run
Drained_no_result_waiting(b, data) ==
    IF UsesPool(b.num_workers, b.format_type)
    THEN b.results = << >>
    ELSE b.next > Len(data)

\* the loop of _build_dataset has come to its end: the iterator of the pool
\* is exhausted only when every chunk has come back and been consumed
Drained(b, data) ==
    IF UsesPool(b.num_workers, b.format_type)
    THEN b.pending = {} /\ b.results = << >>
    ELSE b.next > Len(data)

\* return dataset, and what __init__ does with it: the validation set is
\* built next if evaluation data was given
BuildReturn ==
    /\ build.phase \in {"train", "val"}
    /\ Drained(build, CurData)
    /\ build' = IF build.cur = 1 /\ build.evaluation_data # << >>
                THEN StartBuild(build, 2, build.evaluation_data)
                ELSE [build EXCEPT !.phase = "split"]
    /\ UNCHANGED <<cfg, nn, selfCodec, selfSpec, datasets, valRef, pc, err,
                   resizeLog, pre, setupCalls, choice, seg, cod, hyp, fit>>

\* the product rounded up
TrainLen_rounded_up(n, partition) == (n * partition + 9) \div 10

\* train_len = int(len(train_set)*partition)
TrainLen(n, partition) == (n * partition) \div 10

\* only a run with both sets empty is turned away
SetEmpty_both(train_len, val_len) == train_len = 0 /\ val_len = 0

\* len(self.train_set) == 0 or len(self.val_set) == 0
SetEmpty(train_len, val_len) == train_len = 0 \/ val_len = 0

\* the training subsets random_split(train_set, (train_len, val_len)) can
\* draw, as positions in train_set; the validation subset is the rest
RandomSplits(n, train_len) == {T \in SUBSET (1..n) : Cardinality(T) = train_len}

\* the rest of __init__: the split, the check for empty sets and the codec
SplitAndCheck ==
    /\ build.phase = "split"
    /\ LET explicit == build.evaluation_data # << >>
           n == Len(build.sets[1].samples)
           train_len == IF explicit THEN n ELSE TrainLen(n, build.partition)
           val_len == IF explicit THEN Len(build.sets[2].samples) ELSE n - train_len
       IN  /\ \E T \in (IF explicit THEN {1..n} ELSE RandomSplits(n, train_len)) :
                 build' = [build EXCEPT
                             !.phase = "done",
                             !.train_len = train_len,
                             !.val_len = val_len,
                             !.train_idx = T,
                             !.val_idx = IF explicit THEN 1..val_len ELSE (1..n) \ T]
           /\ valRef' = IF explicit THEN 2 ELSE 1
           /\ \E im_mode \in ImModes :
                 datasets' = [i \in 1..2 |->
                     IF i = 1 THEN NewDataset(AlphabetKeys(build.sets[1]), im_mode)
                     ELSE IF explicit THEN NewDataset(AlphabetKeys(build.sets[2]), im_mode)
                     ELSE NoDataset]
           /\ IF SetEmpty(train_len, val_len)
              THEN /\ err' = Raise("ValueError", 316, {})
                   /\ pc' = "failed"
                   /\ selfCodec' = selfCodec
              ELSE IF Truthy(cfg.codec)
              THEN /\ err' = Raise("AttributeError", 340, {})
                   /\ pc' = "failed"
                   /\ selfCodec' = cfg.codec
              ELSE /\ err' = err
                   /\ pc' = "constructed"
                   /\ selfCodec' = NoCodec
    /\ selfSpec' = IF cfg.model THEN selfSpec ELSE << >>
    /\ UNCHANGED <<cfg, nn, resizeLog, pre, setupCalls, choice, seg, cod, hyp, fit>>

\* the call of setup that follows the construction
BuildSetupEnter == setupCalls = 0 /\ SetupEnter

NextBuild ==
    \/ BuildStart
    \/ WorkerParse
    \/ Collect
    \/ SerialAdd
    \/ BuildReturn
    \/ SplitAndCheck
    \/ BuildSetupEnter
    \/ SetupAppend
    \/ SetupLoad
    \/ SetupAdd
    \/ SetupBoth
    \/ SetupFresh
    \/ SetupValidate
    \/ SetupFinalize

SpecBuild == InitBuild /\ [][NextBuild]_vars

(***************************************************************************)
(* The codec on its own: a codec as construction leaves it, the            *)
(* operations add_labels and merge that setup applies to it (lines 450 and *)
(* 459), and the encoding and decoding of a line.                          *)
(***************************************************************************)
MaxCodecOps == 2

MaxTextLen == 2

\* the codecs construction gives: built from an alphabet, or loaded
ConstructedCodecs ==
    {CodecFromAlphabet(A) : A \in (SUBSET Clusters) \ {{}}} \cup LoadedCodecs

\* the output layer of a network with this codec: row i carries tag i
CodecRows(codec) == [i \in 1..(max_label(codec) + 1) |-> i - 1]

RECURSIVE codec_encode(_, _)
\* the label sequences of the clusters of a line, concatenated
codec_encode(codec, text) ==
    IF text = << >> THEN << >>
    ELSE codec.c2l[Head(text)] \o codec_encode(codec, Tail(text))

IsPrefix(p, s) == Len(p) <= Len(s) /\ SubSeq(s, 1, Len(p)) = p

Undecodable == "?"

RECURSIVE codec_decode(_, _)
\* labels read as positions in the sorted alphabet, whatever the codec says
codec_decode_by_rank(codec, labels) ==
    [i \in 1..Len(labels) |->
        IF labels[i] + 1 \in DOMAIN ClusterNames THEN ClusterNames[labels[i] + 1]
        ELSE Undecodable]

\* the inverse mapping, the longest label sequence that matches first
codec_decode(codec, labels) ==
    IF labels = << >> THEN << >>
    ELSE LET cands == {k \in Keys(codec) :
                         codec.c2l[k] # << >> /\ IsPrefix(codec.c2l[k], labels)}
         IN  IF cands = {} THEN <<Undecodable>>
             ELSE LET k == CHOOSE c \in cands :
                               \A d \in cands : Len(codec.c2l[d]) <= Len(codec.c2l[c])
                  IN  <<k>> \o codec_decode(codec,
                                   SubSeq(labels, Len(codec.c2l[k]) + 1, Len(labels)))

Texts(K) == UNION {[1..n -> K] : n \in 1..MaxTextLen}

InitCodec ==
    /\ RunIdle
    /\ choice = NoChoice
    /\ build = NoBuild
    /\ seg = NoSeg
    /\ hyp = NoHyp
    /\ fit = NoFit
    /\ \E c \in ConstructedCodecs :
          cod = [NoCod EXCEPT !.op = "new", !.codec = c, !.receiver = c,
                              !.rows = CodecRows(c)]

CodecUnchanged ==
    UNCHANGED <<cfg, nn, selfCodec, selfSpec, datasets, valRef, pc, err,
                resizeLog, pre, setupCalls, choice, build, seg, hyp, fit>>

\* codec = codec.add_labels(alpha_diff) and the resize that follows
CodecAddLabels ==
    /\ cod.op \in {"new", "add_labels", "merge"}
    /\ cod.ops < MaxCodecOps
    /\ \E S \in SUBSET (Clusters \ Keys(cod.codec)) :
          LET r == add_labels(cod.codec, S)
          IN  cod' = [NoCod EXCEPT
                        !.op = "add_labels",
                        !.ops = cod.ops + 1,
                        !.before = cod.codec,
                        !.receiver = cod.codec,
                        !.added = S,
                        !.codec = r,
                        !.deleted = << >>,
                        !.rows = resize_output(CodecRows(cod.codec),
                                               max_label(r) + 1, << >>)]
    /\ CodecUnchanged

\* the resize without the deleted labels
MergeResize_keeps_all(rows, m) == resize_output(rows, BothWidth(m.codec), << >>)

\* self.nn.resize_output(ncodec.max_label + 1, del_labels)
MergeResize(rows, m) == resize_output(rows, BothWidth(m.codec), m.deleted)

\* codec, del_ind = codec.merge(other) and the resize that follows
CodecMerge ==
    /\ cod.op \in {"new", "add_labels", "merge"}
    /\ cod.ops < MaxCodecOps
    /\ \E other \in ConstructedCodecs :
          LET m == merge(cod.codec, other)
          IN  cod' = [NoCod EXCEPT
                        !.op = "merge",
                        !.ops = cod.ops + 1,
                        !.before = cod.codec,
                        !.receiver = cod.codec,
                        !.arg = other,
                        !.codec = m.codec,
                        !.deleted = m.deleted,
                        !.rows = MergeResize(CodecRows(cod.codec), m)]
    /\ CodecUnchanged

\* a line of clusters the codec knows is encoded and decoded again
CodecRoundTrip ==
    /\ cod.op \in {"new", "add_labels", "merge"}
    /\ \E text \in Texts(Keys(cod.codec)) :
          LET labels == codec_encode(cod.codec, text)
          IN  cod' = [NoCod EXCEPT
                        !.op = "roundtrip",
                        !.ops = cod.ops,
                        !.codec = cod.codec,
                        !.text = text,
                        !.labels = labels,
                        !.decoded = codec_decode(cod.codec, labels)]
    /\ CodecUnchanged

NextCodec ==
    \/ CodecAddLabels
    \/ CodecMerge
    \/ CodecRoundTrip

SpecCodec == InitCodec /\ [][NextCodec]_vars

(***************************************************************************)
(* Segmentation training: the class mapping of a loaded model (baseline    *)
(* types and region types, each a function from names to rows of the       *)
(* output layer) is reconciled with the classes of the training corpus.    *)
(***************************************************************************)
BaselineNames == {"p", "r"}

RegionNames == {"q", "s"}

\* the lowest index of a mapping: 0, or 2 behind two auxiliary classes
SegStarts == {0, 2}

\* np.inf, which stays np.inf when 1 is added or subtracted
Inf == 99

Plus(x, k) == IF x = Inf THEN Inf ELSE x + k

Values(f) == {f[k] : k \in DOMAIN f}

\* max(m.values()) if m else default
MaxOr(f, default) ==
    IF DOMAIN f = {} THEN default
    ELSE CHOOSE v \in Values(f) : \A w \in Values(f) : w <= v

\* min(m.values()) if m else default
MinOr(f, default) ==
    IF DOMAIN f = {} THEN default
    ELSE CHOOSE v \in Values(f) : \A w \in Values(f) : v <= w

Larger(a, b) == IF a >= b THEN a ELSE b

Smaller(a, b) == IF a <= b THEN a ELSE b

\* the orders in which the elements of a Python set can be iterated
Orders(S) == {o \in [1..Cardinality(S) -> S] : Range(o) = S}

\* the class mappings a model can carry: every class has a row of its own
\* and the rows in use are a gapless run
ModelMappings ==
    UNION { UNION {
        LET classes == ({"baselines"} \X B) \cup ({"regions"} \X R)
            n == Cardinality(classes)
        IN  { [baselines |-> [k \in B |-> f[<<"baselines", k>>]],
               regions |-> [k \in R |-> f[<<"regions", k>>]]] :
                f \in UNION { {g \in [classes -> start..(start + n - 1)] :
                                 \A x, y \in classes : x # y => g[x] # g[y]} :
                               start \in SegStarts } }
        : R \in SUBSET RegionNames } : B \in SUBSET BaselineNames }

ClassOrder == <<"p", "q", "r", "s">>

ClassRank(k) == CHOOSE i \in 1..Len(ClassOrder) : ClassOrder[i] = k

\* the class mapping of a corpus, numbered by the dataset as it likes;
\* reconciliation reads its keys only
CorpusMapping(B, R) ==
    [baselines |-> [k \in B |-> Cardinality({j \in B : ClassRank(j) < ClassRank(k)})],
     regions |-> [k \in R |-> Cardinality(B)
                                + Cardinality({j \in R : ClassRank(j) < ClassRank(k)})]]

\* the output layer of a model with this class mapping: row i carries tag i
SegRows(m) ==
    [i \in 1..(Larger(MaxOr(m.baselines, -1), MaxOr(m.regions, -1)) + 1) |-> i - 1]

\* the load branch is entered with a model, a corpus whose evaluation data
\* was given, and a policy
InitSeg ==
    /\ RunIdle
    /\ choice = NoChoice
    /\ build = NoBuild
    /\ AsideIdle
    /\ \E m \in ModelMappings, B \in SUBSET BaselineNames,
          R \in SUBSET RegionNames, r \in Policies :
          seg = [NoSeg EXCEPT !.phase = "ready",
                              !.resize = r,
                              !.class_mapping = m,
                              !.entry = m,
                              !.gt = CorpusMapping(B, R),
                              !.val = CorpusMapping(B, R),
                              !.rows = SegRows(m)]

SegUnchanged ==
    UNCHANGED <<cfg, nn, selfCodec, selfSpec, datasets, valRef, pc, err,
                resizeLog, pre, setupCalls, choice, build, cod, hyp, fit>>

\* only what the corpus has and the model lacks
SymDiff_one_sided(A, B) == A \ B

SymDiff(A, B) == (A \ B) \cup (B \ A)

\* the keys of the two mappings are compared; a difference is an error
\* under 'fail' and under a policy that is none of the three
SegCompare ==
    /\ seg.phase = "ready"
    /\ LET m == seg.class_mapping
           differ == \/ DOMAIN seg.gt.baselines # DOMAIN m.baselines
                     \/ DOMAIN seg.gt.regions # DOMAIN m.regions
           diff == [bl |-> SymDiff(DOMAIN seg.gt.baselines, DOMAIN m.baselines),
                    regions |-> SymDiff(DOMAIN seg.gt.regions, DOMAIN m.regions)]
       IN  seg' = IF ~differ THEN [seg EXCEPT !.phase = "backfill"]
                  ELSE IF seg.resize = "fail"
                  THEN [seg EXCEPT !.phase = "failed",
                                   !.err = Raise("KrakenInputException", 1142, diff)]
                  ELSE IF seg.resize = "add" THEN [seg EXCEPT !.phase = "add"]
                  ELSE IF seg.resize = "both" THEN [seg EXCEPT !.phase = "both"]
                  ELSE [seg EXCEPT !.phase = "failed",
                                   !.err = Raise("KrakenInputException", 1206, {})]
    /\ SegUnchanged

\* the first class of order given cls_idx itself
Assigned_from_counter(mapping, order, cls_idx) ==
    [k \in DOMAIN mapping \cup Range(order) |->
        IF k \in DOMAIN mapping THEN mapping[k]
        ELSE Plus(cls_idx, (CHOOSE i \in 1..Len(order) : order[i] = k) - 1)]

\* the classes of order get the indices after cls_idx, one after the other
Assigned(mapping, order, cls_idx) ==
    [k \in DOMAIN mapping \cup Range(order) |->
        IF k \in DOMAIN mapping THEN mapping[k]
        ELSE Plus(cls_idx, CHOOSE i \in 1..Len(order) : order[i] = k)]

\* policy 'add': the output layer grows by the new classes, which get the
\* indices after the highest one in use, baselines before regions
SegAdd ==
    /\ seg.phase = "add"
    /\ LET m == seg.class_mapping
           new_bls == DOMAIN seg.gt.baselines \ DOMAIN m.baselines
           new_regions == DOMAIN seg.gt.regions \ DOMAIN m.regions
           cls_idx == Larger(MaxOr(m.baselines, -1), MaxOr(m.regions, -1))
           width == cls_idx + Cardinality(new_bls) + Cardinality(new_regions) + 1
       IN  \E ob \in Orders(new_bls), orr \in Orders(new_regions) :
             seg' = [seg EXCEPT
                       !.phase = "backfill",
                       !.rows = resize_output(@, width, << >>),
                       !.calls = Append(@, ResizeCall(width, FALSE, << >>)),
                       !.class_mapping =
                           [baselines |-> Assigned(m.baselines, ob, cls_idx),
                            regions |-> Assigned(m.regions, orr, cls_idx + Len(ob))],
                       !.cls_idx = cls_idx + Len(ob) + Len(orr)]
    /\ SegUnchanged

\* the surviving classes of a mapping, in the order of their old indices,
\* get the indices from start on
Compact(mapping, del, start) ==
    [k \in DOMAIN mapping \ del |->
        Plus(start, Cardinality({j \in DOMAIN mapping \ del : mapping[j] < mapping[k]}))]

\* a width that counts one row too many
SegBothWidth_one_more(cls_idx, nb, nr, db, dr) == cls_idx + nb + nr - db - dr + 2

SegBothWidth(cls_idx, nb, nr, db, dr) == cls_idx + nb + nr - db - dr + 1

\* policy 'both': the rows of the classes the corpus lacks are deleted, the
\* surviving baselines and then the surviving regions are renumbered from
\* the lowest index in use, and the new classes are numbered after them
SegBoth ==
    /\ seg.phase = "both"
    /\ LET m == seg.class_mapping
           new_bls == DOMAIN seg.gt.baselines \ DOMAIN m.baselines
           new_regions == DOMAIN seg.gt.regions \ DOMAIN m.regions
           del_bls == DOMAIN m.baselines \ DOMAIN seg.gt.baselines
           del_regions == DOMAIN m.regions \ DOMAIN seg.gt.regions
           top == Larger(MaxOr(m.baselines, -1), MaxOr(m.regions, -1))
           width == SegBothWidth(top, Cardinality(new_bls), Cardinality(new_regions),
                                 Cardinality(del_bls), Cardinality(del_regions))
           start == Smaller(MinOr(m.baselines, Inf), MinOr(m.regions, Inf))
           bls == Compact(m.baselines, del_bls, start)
           after_bls == Plus(start, Cardinality(DOMAIN bls))
           regions == Compact(m.regions, del_regions, after_bls)
           cls_idx == Plus(Plus(after_bls, Cardinality(DOMAIN regions)), -1)
       IN  \E ob \in Orders(new_bls), orr \in Orders(new_regions),
              db \in Orders(del_bls), dr \in Orders(del_regions) :
             LET del_indices == [i \in 1..Len(db) |-> m.baselines[db[i]]]
                                  \o [i \in 1..Len(dr) |-> m.regions[dr[i]]]
             IN  seg' = [seg EXCEPT
                           !.phase = "backfill",
                           !.rows = resize_output(@, width, del_indices),
                           !.calls = Append(@, ResizeCall(width, TRUE, del_indices)),
                           !.class_mapping =
                               [baselines |-> Assigned(bls, ob, cls_idx),
                                regions |-> Assigned(regions, orr, Plus(cls_idx, Len(ob)))],
                           !.cls_idx = Plus(cls_idx, Len(ob) + Len(orr))]
    /\ SegUnchanged

\* the datasets take over the class mapping of the model
SegBackfill ==
    /\ seg.phase = "backfill"
    /\ seg' = [seg EXCEPT !.phase = "done",
                          !.gt = seg.class_mapping,
                          !.val = seg.class_mapping]
    /\ SegUnchanged

NextSeg ==
    \/ SegCompare
    \/ SegAdd
    \/ SegBoth
    \/ SegBackfill

SpecSeg == InitSeg /\ [][NextSeg]_vars

(***************************************************************************)
(* Hyper-parameters.  kraken.lib.default_specs.RECOGNITION_HYPER_PARAMS is *)
(* one dictionary of the module default_specs, shared by every             *)
(* construction in the process; hyp.defaults is its content.  A dictionary *)
(* is a function from the keys it has to their values.                     *)
(***************************************************************************)
MaxConstructions == 2

HyperKeys == {"lrate", "lag"}

DefaultValue == 0
LoadedValue == 1
GivenValue == 2

\* default_specs.RECOGNITION_HYPER_PARAMS as imported
DefaultHyperParams == [k \in HyperKeys |-> DefaultValue]

\* the dictionaries a loaded model can carry in nn.hyper_params
LoadedHyperParams == UNION {[K -> {LoadedValue}] : K \in SUBSET HyperKeys}

\* the dictionaries a caller can pass as hyper_params; None is the empty one
GivenHyperParams == UNION {[K -> {GivenValue}] : K \in SUBSET HyperKeys}

\* dict.update
update(d, u) ==
    [k \in DOMAIN d \cup DOMAIN u |-> IF k \in DOMAIN u THEN u[k] ELSE d[k]]

InitHyp ==
    /\ RunIdle
    /\ choice = NoChoice
    /\ build = NoBuild
    /\ seg = NoSeg
    /\ cod = NoCod
    /\ fit = NoFit
    /\ hyp = [NoHyp EXCEPT !.phase = "imported", !.defaults = DefaultHyperParams]

\* hp of lines 205-209, the empty dictionary when no model is loaded
LoadedHp(model, load_hyper_parameters, loaded) ==
    IF model /\ load_hyper_parameters THEN loaded ELSE << >>

\* the dictionary hyper_params_ names after lines 202-214 when it named d
\* before: the loaded model's values first, the caller's on top
Updated(d, model, load_hyper_parameters, loaded, hyper_params) ==
    LET afterModel == IF model
                      THEN update(d, LoadedHp(model, load_hyper_parameters, loaded))
                      ELSE d
    IN  IF DOMAIN hyper_params # {} THEN update(afterModel, hyper_params)
        ELSE afterModel

\* lines 201-215 of __init__: hyper_params_ is the dictionary of
\* default_specs itself, so both updates are written into it;
\* save_hyperparameters keeps a copy of its content as self.hparams
HypConstruct ==
    /\ hyp.phase \in {"imported", "constructed"}
    /\ hyp.constructions < MaxConstructions
    /\ \E model \in BOOLEAN, load_hyper_parameters \in BOOLEAN,
          loaded \in LoadedHyperParams, hyper_params \in GivenHyperParams :
          /\ (~model => loaded = << >>)
          /\ LET hyper_params_ == Updated(hyp.defaults, model, load_hyper_parameters,
                                          loaded, hyper_params)
             IN  hyp' = [phase |-> "constructed",
                         defaults |-> hyper_params_,
                         constructions |-> hyp.constructions + 1,
                         seen |-> hyp.defaults,
                         model |-> model,
                         load_hyper_parameters |-> load_hyper_parameters,
                         loaded |-> loaded,
                         hyper_params |-> hyper_params,
                         hparams |-> hyper_params_]
    /\ UNCHANGED <<cfg, nn, selfCodec, selfSpec, datasets, valRef, pc, err,
                   resizeLog, pre, setupCalls, choice, build, seg, cod, fit>>

NextHyp == HypConstruct

SpecHyp == InitHyp /\ [][NextHyp]_vars

(***************************************************************************)
(* Validation during fit.  The trainer may run a sanity check, a           *)
(* validation before the first training epoch, and then validates at the   *)
(* intervals its keyword arguments set.  Each validation ends with         *)
(* RecognitionModel.validation_epoch_end followed by                       *)
(* KrakenTrainer.on_validation_end.  An accuracy is kept as its value      *)
(* times Scale; fit.history logs what each validation_epoch_end saw.       *)
(***************************************************************************)
MaxValidations == 2
MaxChars == 2

\* a multiple of every character count up to 4, so that the quotients are exact
Scale == 12

\* 1 / torch.finfo(torch.float).eps
EpsInverse == 8388608

InitialCompletedEpochs == {0, 1}

\* validations per epoch and epochs per validation are the caller's to set
EpochSteps == {0, 1}

FitImModes == ImModes \cup {"RGB"}

Sign(x) == IF x > 0 THEN 1 ELSE IF x < 0 THEN -1 ELSE 0

\* (chars - error) / (chars + eps) in single precision: chars + eps is chars
\* from 2 characters on, the next number after 1 for one character, and eps
\* itself for none
Accuracy(chars, error) ==
    IF chars = 0 THEN (0 - error) * EpsInverse * Scale
    ELSE IF chars = 1 THEN (1 - error) * Scale - Sign(1 - error)
    ELSE ((chars - error) * Scale) \div chars

\* the error counts compute_error can return for a number of characters
Errors(chars) == 0..(chars + 1)

InitFit ==
    /\ RunIdle
    /\ choice = NoChoice
    /\ build = NoBuild
    /\ seg = NoSeg
    /\ cod = NoCod
    /\ hyp = NoHyp
    /\ \E entry \in InitialCompletedEpochs, im_mode \in FitImModes :
          fit = [NoFit EXCEPT !.phase = "constructed",
                              !.completed_epochs = entry,
                              !.entry = entry,
                              !.im_mode = im_mode]

FitUnchanged ==
    UNCHANGED <<cfg, nn, selfCodec, selfSpec, datasets, valRef, pc, err,
                resizeLog, pre, setupCalls, choice, build, seg, cod, hyp>>

\* trainer.fit(model): with or without the sanity check
FitStart ==
    /\ fit.phase = "constructed"
    /\ \E sanity \in BOOLEAN :
          fit' = [fit EXCEPT !.phase = "validation", !.sanity_checking = sanity]
    /\ FitUnchanged

\* a later accuracy as good as the best one takes its place
Better_or_equal(accuracy, best_metric) == accuracy >= best_metric

\* accuracy > self.best_metric
Better(accuracy, best_metric) == accuracy > best_metric

\* RecognitionModel.validation_epoch_end
ValidationEpochEnd ==
    /\ fit.phase = "validation"
    /\ \E chars \in 0..MaxChars :
       \E error \in Errors(chars) :
          LET accuracy == Accuracy(chars, error)
              better == Better(accuracy, fit.best_metric)
              best_epoch == IF better THEN fit.current_epoch ELSE fit.best_epoch
              best_metric == IF better THEN accuracy ELSE fit.best_metric
          IN  fit' = [fit EXCEPT
                        !.phase = "validated",
                        !.best_epoch = best_epoch,
                        !.best_metric = best_metric,
                        !.history = Append(@, [epoch |-> fit.current_epoch,
                                               sanity |-> fit.sanity_checking,
                                               accuracy |-> accuracy,
                                               best_metric |-> best_metric,
                                               best_epoch |-> best_epoch])]
    /\ FitUnchanged

\* the validations that were not sanity checks
Validations(history) == {i \in DOMAIN history : ~history[i].sanity}

\* KrakenTrainer.on_validation_end, and the trainer going on to the next
\* validation or to the end of fit
OnValidationEnd ==
    /\ fit.phase = "validated"
    /\ IF fit.sanity_checking
       THEN fit' = [fit EXCEPT !.phase = "validation", !.sanity_checking = FALSE]
       ELSE \E step \in EpochSteps :
              fit' = [fit EXCEPT
                        !.one_channel_mode =
                            IF fit.current_epoch = 0 /\ fit.im_mode \in {"1", "L"}
                            THEN fit.im_mode ELSE @,
                        !.completed_epochs = @ + 1,
                        !.logged = @ + 1,
                        !.saved = @ \cup {fit.current_epoch},
                        !.current_epoch = @ + step,
                        !.phase = IF Cardinality(Validations(fit.history)) < MaxValidations
                                  THEN "validation" ELSE "finished"]
    /\ FitUnchanged

NextFit ==
    \/ FitStart
    \/ ValidationEpochEnd
    \/ OnValidationEnd

SpecFit == InitFit /\ [][NextFit]_vars

(***************************************************************************)
(* Vocabulary of the properties.                                           *)
(***************************************************************************)
\* the entry states as the design describes them
LoadState == cfg.model /\ cfg.append = NoAppend

AppendState == cfg.model /\ cfg.append # NoAppend

FreshState == ~cfg.model

\* a call of setup is past the first encoding of the training set
PastBranch ==
    /\ setupCalls > 0
    /\ pc \in {"add", "both", "validate", "finalize", "done", "failed"}

\* a call of setup has ended, by returning or by raising
SetupEnded == setupCalls > 0 /\ pc \in {"done", "failed"}

\* a call of setup is past the reconciliation of the load branch
Reconciled ==
    /\ setupCalls > 0
    /\ pc \in {"validate", "finalize", "done", "failed"}

\* the codec reconciliation starts from
EntryCodec == EffectiveCodec(selfCodec, cfg.resize, pre.nn.codec)

\* the training alphabet has a cluster the codec at entry lacks
Mismatch == ~(train.alphabet \subseteq Keys(EntryCodec))

LastResize == resizeLog[Len(resizeLog)]

\* labels of the codec at entry whose clusters the training set lacks
UnusedLabels ==
    SortedSeq(UNION {Range(EntryCodec.c2l[k]) : k \in Keys(EntryCodec) \ train.alphabet})

ScenarioCodecAB == [c \in {"a", "b"} |-> IF c = "a" THEN <<0>> ELSE <<1>>]

ScenarioCodecABX ==
    [c \in {"a", "b", "x"} |-> IF c = "a" THEN <<0>> ELSE IF c = "b" THEN <<1>> ELSE <<2>>]

ScenarioCodecABC ==
    [c \in {"a", "b", "c"} |-> IF c = "a" THEN <<0>> ELSE IF c = "b" THEN <<1>> ELSE <<2>>]

(***************************************************************************)
(* C1.  Load state, policy 'fail': when the training alphabet has a        *)
(* cluster that is not a key of the loaded codec, setup raises the         *)
(* alphabet-mismatch error (KrakenInputException of line 449) and the set  *)
(* it names is exactly the training alphabet minus the keys of the codec.  *)
(***************************************************************************)
C1_FailNamesDifference ==
    (LoadState /\ cfg.resize = "fail" /\ PastBranch
       /\ ~(train.alphabet \subseteq Keys(pre.nn.codec)))
    => /\ pc = "failed"
       /\ err.type = "KrakenInputException"
       /\ err.line = 449
       /\ err.info = train.alphabet \ Keys(pre.nn.codec)

\* scenario A: codec {a:[0], b:[1]}, alphabet {a, b, c} names {c}
C1_Witness ==
    /\ LoadState /\ cfg.resize = "fail" /\ pc = "failed"
    /\ pre.nn.codec.c2l = ScenarioCodecAB
    /\ train.alphabet = {"a", "b", "c"}
    /\ err.type = "KrakenInputException"
    /\ err.info = {"c"}

(***************************************************************************)
(* C2.  Load state, policy 'add': when the training alphabet has clusters  *)
(* the loaded codec lacks, setup gets past reconciliation without raising, *)
(* with the model's codec the old codec plus one entry per missing cluster *)
(* (new labels from old max_label + 1), the output layer resized to the    *)
(* new max_label + 1 rows without deletions and old rows kept, and the     *)
(* training set encoded against the extended codec.                        *)
(***************************************************************************)
C2_AddExtendsAndEncodes ==
    (LoadState /\ cfg.resize = "add" /\ PastBranch /\ pc # "add"
       /\ ~pre.again
       /\ ~(train.alphabet \subseteq Keys(pre.nn.codec)))
    => LET old == pre.nn.codec
           new == train.alphabet \ Keys(old)
       IN  /\ err.line \notin 444..467
           /\ Keys(nn.codec) = Keys(old) \cup new
           /\ \A c \in Keys(old) : nn.codec.c2l[c] = old.c2l[c]
           /\ {nn.codec.c2l[c] : c \in new}
                = {<<l>> : l \in (max_label(old) + 1)..(max_label(old) + Cardinality(new))}
           /\ Len(nn.rows) = max_label(nn.codec) + 1
           /\ \A i \in 1..Len(pre.nn.rows) : nn.rows[i] = pre.nn.rows[i]
           /\ Len(resizeLog) = pre.resizes + 1 /\ ~LastResize.hasDel
           /\ train.encoded /\ train.codec = nn.codec

(***************************************************************************)
(* C3.  Load state, policy 'both', as claimed: for every codec and every   *)
(* non-empty training alphabet, after reconciliation the clusters of the   *)
(* model's codec are exactly the training alphabet, the labels deleted     *)
(* from the output layer are exactly the old labels of the clusters the    *)
(* training alphabet lacks, and the layer has max_label + 1 rows.          *)
(***************************************************************************)
C3_BothAlwaysMerges ==
    (LoadState /\ cfg.resize = "both" /\ Reconciled /\ train.alphabet # {})
    => /\ Keys(nn.codec) = train.alphabet
       /\ Len(nn.rows) = max_label(nn.codec) + 1
       /\ IF Len(resizeLog) > pre.resizes
          THEN LastResize.del = UnusedLabels
          ELSE UnusedLabels = << >>

(***************************************************************************)
(* C3, amended.  Load state, policy 'both': when the training alphabet     *)
(* has at least one cluster the codec lacks, after reconciliation the      *)
(* clusters of the model's codec are exactly the training alphabet,        *)
(* resize_output was called once with merged.max_label + 1 rows and with   *)
(* exactly the old labels of the clusters the training alphabet lacks, and *)
(* the layer has that many rows.                                           *)
(***************************************************************************)
C3_BothMergesOnMismatch ==
    (LoadState /\ cfg.resize = "both" /\ Reconciled /\ Mismatch)
    => /\ Keys(nn.codec) = train.alphabet
       /\ Len(resizeLog) = pre.resizes + 1
       /\ LastResize.hasDel
       /\ LastResize.del = UnusedLabels
       /\ LastResize.width = max_label(nn.codec) + 1
       /\ Len(nn.rows) = max_label(nn.codec) + 1

\* scenario C: codec {a:[0], b:[1], x:[2]}, alphabet {a, b, c}, deleted [2]
C3_Witness ==
    /\ LoadState /\ cfg.resize = "both" /\ pc = "validate"
    /\ pre.nn.codec.c2l = ScenarioCodecABX
    /\ train.alphabet = {"a", "b", "c"}
    /\ nn.codec.c2l = ScenarioCodecABC
    /\ LastResize = ResizeCall(3, TRUE, <<2>>)
    /\ nn.rows = <<0, 1, FreshRow>>

C5_InvalidPolicyRejectedFirst ==
    (cfg.resize \notin {"fail", "add", "both"})
    => /\ \A i \in DOMAIN datasets : datasets[i].alphabet = {}
       /\ pc # "done"

(***************************************************************************)
(* C6.  The validation set is encoded against the model's final codec and  *)
(* with strict checking relaxed: encoding the validation set (line 477)    *)
(* never raises, and once it is encoded its codec is the model's codec.    *)
(***************************************************************************)
C6_ValidationTolerant ==
    /\ (pc = "failed" => err.line # 477)
    /\ (setupCalls > 0 /\ pc \in {"finalize", "done"}
          => val.encoded /\ val.codec.c2l = nn.codec.c2l)

(***************************************************************************)
(* C7.  Entry-state selection: the branch setup takes is Append exactly    *)
(* when a pretrained model is loaded and an append point is given (index 0 *)
(* included), Load exactly when a model is loaded and no append point is   *)
(* given, Fresh exactly when no model is loaded.                           *)
(***************************************************************************)
C7_EntryStateSelection ==
    (pc \in {"append", "load", "fresh"})
    => pc = (IF AppendState THEN "append" ELSE IF LoadState THEN "load" ELSE "fresh")

(***************************************************************************)
(* C8.  After any setup that completes without raising, the output layer   *)
(* has nn.codec.max_label + 1 rows and the codec the training set was      *)
(* encoded with is the model's codec.                                      *)
(***************************************************************************)
C8_WidthAndCodecAgree ==
    (setupCalls > 0 /\ pc = "done")
    => /\ Len(nn.rows) = max_label(nn.codec) + 1
       /\ train.encoded
       /\ train.codec = nn.codec

\* a new model was created for a training set of three clusters
C8_Witness ==
    /\ pc = "done" /\ FreshState
    /\ Cardinality(train.alphabet) = 3
    /\ Len(nn.rows) = 3
    /\ train.codec = nn.codec

(***************************************************************************)
(* C9.  Every run of setup either raises one of the fatal setup errors     *)
(* (alphabet mismatch under 'fail', invalid policy) or reaches the         *)
(* converged end state: hyper-parameters of the run stored in the network, *)
(* model type 'recognition', both datasets encoded.  No other exception    *)
(* ends setup.                                                             *)
(***************************************************************************)
C9_FatalOrConverged ==
    /\ (setupCalls > 0 /\ pc = "failed" /\ err.line > 426)
          => \/ err.type = "KrakenInputException" /\ err.line = 449
             \/ err.type = "ValueError" /\ err.line = 467
    /\ (setupCalls > 0 /\ pc = "done")
          => /\ nn.hyper_params = "hparams"
             /\ nn.model_type = "recognition"
             /\ train.encoded /\ val.encoded

(***************************************************************************)
(* C10.  Failure atomicity: whenever setup raises while reconciling (lines *)
(* 444-467), the label assignment of the model's codec and the output      *)
(* layer are what they were when setup was called.                         *)
(***************************************************************************)
C10_ReconcileFailureAtomic ==
    (pc = "failed" /\ err.line \in 444..467)
    => /\ nn.codec.c2l = pre.nn.codec.c2l
       /\ nn.rows = pre.nn.rows

\* C11: in the Load state the codec reconciled against is the given codec
\* only if one was given and the policy is 'both'; under 'fail' and 'add', and
\* whenever no codec was given, it is the codec of the loaded model
C11_EffectiveCodecChoice ==
    choice.applied =>
        /\ (choice.result # choice.net =>
                /\ Truthy(choice.given)
                /\ choice.resize = "both"
                /\ choice.result = choice.given)
        /\ (choice.resize \in {"fail", "add"} => choice.result = choice.net)
        /\ (~Truthy(choice.given) => choice.result = choice.net)
        /\ (Truthy(choice.given) /\ choice.resize = "both" =>
                choice.result = choice.given)

\* a given codec that differs from the model's was chosen under 'both'
C11_Witness ==
    /\ choice.applied
    /\ Truthy(choice.given)
    /\ choice.resize = "both"
    /\ choice.given # choice.net
    /\ choice.result = choice.given

(***************************************************************************)
(* C12.  In the Append state setup completes: the training set is encoded  *)
(* against a brand-new codec derived only from the training corpus, a new  *)
(* stage of width max_label + 1 of that codec is spliced onto the loaded   *)
(* network, and that codec becomes the codec of the model.  Stated for the *)
(* append points the code takes to its append branch (index 1 and above).  *)
(***************************************************************************)
C12_AppendCompletes ==
    (AppendState /\ cfg.append > 0 /\ SetupEnded /\ ~pre.again)
    => /\ pc = "done"
       /\ train.encoded
       /\ train.codec.c2l = CodecFromAlphabet(train.alphabet).c2l
       /\ nn.codec = train.codec
       /\ Len(nn.rows) = max_label(train.codec) + 1

(***************************************************************************)
(* C13.  In the Fresh state (no pretrained model) the codec is built       *)
(* directly from the training alphabet, a new model is constructed whose   *)
(* output width is max_label + 1 of that codec, and the codec of the model *)
(* is the codec the training set was encoded with.                         *)
(***************************************************************************)
C13_FreshBuildsModel ==
    (FreshState /\ SetupEnded /\ ~pre.again)
    => /\ pc = "done"
       /\ train.encoded
       /\ train.codec.c2l = CodecFromAlphabet(train.alphabet).c2l
       /\ nn.codec = train.codec
       /\ Len(nn.rows) = max_label(nn.codec) + 1
       /\ \A i \in 1..Len(nn.rows) : nn.rows[i] = FreshRow

(***************************************************************************)
(* Vocabulary of the properties of dataset construction: what a corpus     *)
(* must give whatever the path and the order its items come back in.       *)
(***************************************************************************)
\* the items of a corpus that can be parsed
Accepted(data) == {i \in DOMAIN data : data[i].kind = "ok"}

ExpectedCount(data, t) == Cardinality({i \in Accepted(data) : data[i].text = t})

SampleCount(samples, t) == Cardinality({i \in DOMAIN samples : samples[i] = t})

\* the dataset holds the lines of the accepted items, as a multiset
SameSamples(set, data) ==
    /\ Len(set.samples) = Cardinality(Accepted(data))
    /\ \A t \in Range(ItemTexts) :
          SampleCount(set.samples, t) = ExpectedCount(data, t)

\* the occurrences of each cluster in the accepted items
ExpectedAlphabet(data) ==
    [c \in Clusters |->
        Cardinality(UNION { {<<i, k>> : k \in {j \in DOMAIN data[i].text :
                                                  data[i].text[j] = c}} :
                            i \in Accepted(data) })]

ExpectedKeys(data) == {c \in Clusters : ExpectedAlphabet(data)[c] > 0}

ExplicitVal == build.evaluation_data # << >>

\* the sizes of the two sets after the drops and the split
ExpectedTrainLen ==
    IF ExplicitVal THEN Cardinality(Accepted(build.training_data))
    ELSE (Cardinality(Accepted(build.training_data)) * build.partition) \div 10

ExpectedValLen ==
    IF ExplicitVal THEN Cardinality(Accepted(build.evaluation_data))
    ELSE Cardinality(Accepted(build.training_data)) - ExpectedTrainLen

\* __init__ has ended, by returning or by raising
ConstructionEnded == build.phase \in {"done", "aborted"}

\* setup has started one of its branches
InSetup ==
    /\ setupCalls > 0
    /\ pc \in {"append", "load", "fresh", "add", "both", "validate",
               "finalize", "done", "failed"}

(***************************************************************************)
(* C14.  A ground-truth item that cannot be parsed (missing file or        *)
(* malformed input) never aborts dataset construction: with the pool and   *)
(* without it the item is dropped, every other item is still added and the *)
(* run continues.                                                          *)
(***************************************************************************)
C14_BadItemNeverAborts ==
    /\ build.phase # "aborted"
    /\ ~(pc = "failed" /\ err.line \in 350..371)
    /\ (build.phase \in {"split", "done"} =>
          /\ SameSamples(build.sets[1], build.training_data)
          /\ (ExplicitVal => SameSamples(build.sets[2], build.evaluation_data)))

(***************************************************************************)
(* C15.  If after the drops (and after the proportional split when no      *)
(* validation data is given) the training set or the validation set is     *)
(* empty, construction fails and setup is never reached; if both are       *)
(* non-empty the error for empty sets is not raised.                       *)
(***************************************************************************)
C15_EmptySetIsFatal ==
    ConstructionEnded =>
        /\ (ExpectedTrainLen = 0 \/ ExpectedValLen = 0 =>
                pc = "failed" /\ setupCalls = 0 /\ err.line < 427)
        /\ (ExpectedTrainLen > 0 /\ ExpectedValLen > 0 =>
                ~(err.type = "ValueError" /\ err.line = 316))
        /\ (build.phase = "done" =>
                (err.type = "ValueError" /\ err.line = 316
                    <=> ExpectedTrainLen = 0 \/ ExpectedValLen = 0))

\* items were dropped, the training set is not empty, the validation set is
C15_Witness ==
    /\ build.phase = "done"
    /\ pc = "failed" /\ err.type = "ValueError"
    /\ Cardinality(Accepted(build.training_data)) < Len(build.training_data)
    /\ build.train_len > 0
    /\ build.val_len = 0

(***************************************************************************)
(* C16.  Reconciliation is a barrier: in every interleaving of the parse   *)
(* workers no step of setup starts before every worker has finished and    *)
(* its result has been added or discarded, so the alphabet setup reads is  *)
(* the complete alphabet of the accepted items.                            *)
(***************************************************************************)
C16_ReconciliationBarrier ==
    InSetup =>
        /\ build.phase = "done"
        /\ build.pending = {}
        /\ build.results = << >>
        /\ SameSamples(build.sets[1], build.training_data)
        /\ train.alphabet = ExpectedKeys(build.training_data)

\* two chunks went through the pool and setup has resized the output layer
C16_Witness ==
    /\ UsesPool(build.num_workers, build.format_type)
    /\ Len(build.training_data) > ChunkSize
    /\ InSetup
    /\ Len(resizeLog) > 0
    /\ pc = "validate"

(***************************************************************************)
(* C17.  The result of dataset construction does not depend on the order   *)
(* in which the workers complete: the dataset holds the same multiset of   *)
(* samples and the same alphabet with the same counts, and so the outcome  *)
(* of reconciliation (keys of the resulting codec, raised error) is the    *)
(* same.  Stated as: each is the value the input items alone determine.    *)
(***************************************************************************)
C17_OrderIndependent ==
    (UsesPool(build.num_workers, build.format_type)
        /\ build.phase \in {"split", "done"})
    => /\ SameSamples(build.sets[1], build.training_data)
       /\ build.sets[1].alphabet = ExpectedAlphabet(build.training_data)
       /\ (ExplicitVal =>
             /\ SameSamples(build.sets[2], build.evaluation_data)
             /\ build.sets[2].alphabet = ExpectedAlphabet(build.evaluation_data))
       /\ (build.phase = "done" =>
             train.alphabet = ExpectedKeys(build.training_data))
       /\ (InSetup /\ pc = "failed" /\ err.line = 449 =>
             err.info = ExpectedKeys(build.training_data) \ Keys(cfg.pretrained.codec))
       /\ (InSetup /\ pc = "done" =>
             Keys(nn.codec) =
                IF ~cfg.model
                      \/ (cfg.resize = "both"
                            /\ ~(ExpectedKeys(build.training_data)
                                    \subseteq Keys(cfg.pretrained.codec)))
                THEN ExpectedKeys(build.training_data)
                ELSE Keys(cfg.pretrained.codec))

\* the second chunk came back first and setup completed on the dataset
C17_Witness ==
    /\ UsesPool(build.num_workers, build.format_type)
    /\ Len(build.training_data) > ChunkSize
    /\ build.training_data[ChunkSize + 1].kind = "ok"
    /\ build.sets[1].samples # << >>
    /\ build.sets[1].samples[1] = build.training_data[ChunkSize + 1].text
    /\ InSetup /\ pc = "done"

(***************************************************************************)
(* Vocabulary of the properties of class mapping reconciliation.           *)
(***************************************************************************)
\* the policy has changed the mapping and the output layer
SegResized(policy) ==
    /\ seg.phase \in {"backfill", "done"}
    /\ seg.resize = policy
    /\ Len(seg.calls) > 0

\* the classes the model had and the corpus has
Surviving(ns) == DOMAIN seg.entry[ns] \cap DOMAIN seg.class_mapping[ns]

\* the indices in use in the two namespaces together
SegValues == Values(seg.class_mapping.baselines) \cup Values(seg.class_mapping.regions)

SegClassCount ==
    Cardinality(DOMAIN seg.class_mapping.baselines)
        + Cardinality(DOMAIN seg.class_mapping.regions)

\* the model of scenario D meets its corpus under 'both' and is resized
ScenarioD ==
    /\ seg.phase = "backfill"
    /\ seg.resize = "both"
    /\ seg.entry = [baselines |-> [k \in {"p"} |-> 0], regions |-> [k \in {"q"} |-> 1]]
    /\ DOMAIN seg.gt.baselines = {"p", "r"}
    /\ DOMAIN seg.gt.regions = {}

(***************************************************************************)
(* C18.  Class mapping reconciliation under 'both': the new index of every *)
(* surviving class is the position its output row has after resize_output  *)
(* has removed the deleted rows and shifted the others in their original   *)
(* order: survivors of both namespaces are renumbered in increasing order  *)
(* of their old index, whichever namespace they belong to.                 *)
(***************************************************************************)
C18_SurvivorsFollowRows ==
    SegResized("both") =>
        \A ns \in {"baselines", "regions"} :
            \A k \in Surviving(ns) :
                /\ seg.class_mapping[ns][k] + 1 \in DOMAIN seg.rows
                /\ seg.rows[seg.class_mapping[ns][k] + 1] = seg.entry[ns][k]

(***************************************************************************)
(* C19.  After class mapping reconciliation under 'add' or 'both', from a  *)
(* mapping whose indices are distinct and gapless, the indices of the      *)
(* baselines and of the regions together are pairwise distinct             *)
(* non-negative integers that form one gapless run, and the width passed   *)
(* to resize_output is the largest index + 1.                              *)
(***************************************************************************)
C19_DistinctGaplessRun ==
    (SegResized("add") \/ SegResized("both")) =>
        /\ Cardinality(SegValues) = SegClassCount
        /\ \A v \in SegValues : v \in Nat /\ v # Inf
        /\ (SegValues # {} =>
              /\ \E lo \in SegValues : SegValues = lo..(lo + SegClassCount - 1)
              /\ \A v \in SegValues : v <= seg.calls[1].width - 1
              /\ seg.calls[1].width - 1 \in SegValues)

GaplessFromNonEmptyModel ==
    (DOMAIN seg.entry.baselines \cup DOMAIN seg.entry.regions # {})
        => C19_DistinctGaplessRun

C22_AddLabelsExtends ==
    cod.op = "add_labels" =>
        LET c == cod.before
            r == cod.codec
            S == cod.added
        IN  /\ Keys(r) = Keys(c) \cup S
            /\ \A k \in Keys(c) : r.c2l[k] = c.c2l[k]
            /\ \A k \in S : Len(r.c2l[k]) = 1 /\ r.c2l[k][1] \notin Labels(c)
            /\ \A k, j \in S : k # j => r.c2l[k] # r.c2l[j]
            /\ {r.c2l[k][1] : k \in S}
                  = (max_label(c) + 1)..(max_label(c) + Cardinality(S))
            /\ \A k, j \in S : Rank(k) < Rank(j) => r.c2l[k][1] < r.c2l[j][1]
            /\ cod.receiver = c

\* two clusters were added to a codec of two
C22_Witness ==
    /\ cod.op = "add_labels"
    /\ Cardinality(Keys(cod.before)) = 2
    /\ Cardinality(cod.added) = 2
    /\ max_label(cod.codec) = 3

C27_SetupIdempotent ==
    (pre.again /\ SetupEnded) =>
        /\ pc = "done"
        /\ nn.codec = pre.nn.codec
        /\ Len(nn.rows) = Len(pre.nn.rows)
        /\ nn.spec = pre.nn.spec
        /\ Len(resizeLog) = pre.resizes

(***************************************************************************)
(* C29.  Without explicit validation data the n accepted samples are split *)
(* into floor(n * partition) training samples and the remaining            *)
(* n - floor(n * partition) validation samples; the two subsets are        *)
(* disjoint, together cover all n samples, and are views of one dataset,   *)
(* with the same alphabet and, once encoded, the same codec.               *)
(***************************************************************************)
C29_SplitPartitions ==
    (build.phase = "done" /\ ~ExplicitVal) =>
        LET n == Cardinality(Accepted(build.training_data))
        IN  /\ 10 * build.train_len <= n * build.partition
            /\ n * build.partition < 10 * (build.train_len + 1)
            /\ build.val_len = n - build.train_len
            /\ Cardinality(build.train_idx) = build.train_len
            /\ Cardinality(build.val_idx) = build.val_len
            /\ build.train_idx \cap build.val_idx = {}
            /\ build.train_idx \cup build.val_idx = 1..n
            /\ valRef = 1
            /\ val.alphabet = train.alphabet
            /\ (setupCalls > 0 /\ pc = "done" =>
                    val.encoded /\ val.codec = train.codec /\ val.codec = nn.codec)

\* five of six items were accepted; 4.5 is cut down to four training samples
\* and the validation sample is not the last one; setup has encoded the set
C29_Witness ==
    /\ build.phase = "done"
    /\ ~ExplicitVal
    /\ build.partition = DefaultPartition
    /\ Len(build.training_data) = 6
    /\ Cardinality(Accepted(build.training_data)) = 5
    /\ build.train_len = 4
    /\ build.val_idx = {2}
    /\ setupCalls > 0 /\ pc = "done"

(***************************************************************************)
(* C28.  The effective hyper-parameters of a RecognitionModel depend only  *)
(* on the inputs of its own construction: the caller's hyper_params win    *)
(* over the loaded model's (used only with load_hyper_parameters), which   *)
(* win over the defaults; and a construction never changes the defaults a  *)
(* later construction sees.                                                *)
(***************************************************************************)
C28_HyperParamsPrecedence ==
    hyp.phase = "constructed" =>
        /\ \A k \in HyperKeys :
              hyp.hparams[k] =
                 IF k \in DOMAIN hyp.hyper_params THEN hyp.hyper_params[k]
                 ELSE IF hyp.model /\ hyp.load_hyper_parameters /\ k \in DOMAIN hyp.loaded
                 THEN hyp.loaded[k]
                 ELSE DefaultHyperParams[k]
        /\ hyp.seen = DefaultHyperParams
        /\ hyp.defaults = DefaultHyperParams

(***************************************************************************)
(* C30.  Across any sequence of validations best_metric never decreases    *)
(* and is the maximum of 0 and all accuracies seen so far; best_epoch is   *)
(* the epoch at which that maximum was first reached, a later validation   *)
(* with an equal accuracy not replacing it (0 counts as reached at         *)
(* construction, with epoch 0); completed_epochs grows by exactly 1 with   *)
(* every validation end that is not a sanity check and is left alone by    *)
(* the sanity check.                                                       *)
(***************************************************************************)
C30_BestAndCompleted ==
    fit.phase # "idle" =>
        LET h == fit.history
            seen == {0} \cup {h[i].accuracy : i \in DOMAIN h}
            top == CHOOSE a \in seen : \A b \in seen : b <= a
            reached == {i \in DOMAIN h : h[i].accuracy = top}
            first == CHOOSE i \in reached : \A j \in reached : i <= j
            ended == Cardinality(Validations(h))
                       - (IF fit.phase = "validated" /\ ~fit.sanity_checking THEN 1 ELSE 0)
        IN  /\ fit.best_metric = top
            /\ \A i, j \in DOMAIN h : i <= j => h[i].best_metric <= h[j].best_metric
            /\ \A i \in DOMAIN h : 0 <= h[i].best_metric
            /\ (h # << >> => h[Len(h)].best_metric = fit.best_metric
                               /\ h[Len(h)].best_epoch = fit.best_epoch)
            /\ fit.best_epoch = IF top = 0 \/ reached = {} THEN 0 ELSE h[first].epoch
            /\ fit.completed_epochs = fit.entry + ended
            /\ fit.logged = ended

\* a sanity check with a poor accuracy, then two validations in different
\* epochs with the same perfect accuracy: the first keeps the title, and
\* the counter has moved by two
C30_Witness ==
    /\ fit.phase = "finished"
    /\ Len(fit.history) = 3
    /\ fit.history[1].sanity /\ fit.history[1].accuracy < 0
    /\ fit.history[2].accuracy = Scale /\ fit.history[3].accuracy = Scale
    /\ fit.history[2].epoch = 0 /\ fit.history[3].epoch = 1
    /\ fit.best_epoch = 0
    /\ fit.entry = 1 /\ fit.completed_epochs = 3

====
